---------------------------- MODULE Spec2Model ----------------------------
(***************************************************************************)
(* Ride-Sharing Intelligence (final.py): the seed operation, the data      *)
(* access queries and the ride-creation workflow over the five MongoDB     *)
(* collections.                                                            *)
(*                                                                         *)
(* Numbers are kept as scaled integers: money in cents (2 decimals),       *)
(* surge multipliers and ratings in tenths (1 decimal), distances in       *)
(* hundredths of a km.  round(x, 2) is Python's round-half-even, applied   *)
(* to the exact decimal value.  A nullable field is <<>> (None) or <<v>>.  *)
(* Timestamps are kept as minute offsets from the ride's request_time.     *)
(*                                                                         *)
(* A document keeps its id, its references and the fields that some        *)
(* operation reads or derives (status, fares, rating, timing, earnings);   *)
(* names, phones, addresses, coordinates and plates are left out.          *)
(*                                                                         *)
(* Every pymongo call is one step that either takes effect or raises       *)
(* without effect.  The random module is a source r = (mul, off) whose     *)
(* k-th draw out of n outcomes is (mul * k + off) % n: mul = 0 gives the   *)
(* batches whose records all draw alike (all drivers busy, no ride         *)
(* completed, ...), mul > 0 the mixed ones.                                *)
(*                                                                         *)
(* Spec runs the operations one at a time, as the single-threaded script   *)
(* does: an operation starts only when no other is in progress.  The       *)
(* ...Enter actions are the same starts without that guard.                *)
(***************************************************************************)
EXTENDS Integers, Sequences, FiniteSets, TLC

(* ------------------------------ bounds -------------------------------- *)
\* the random source: draw k out of n is (mul * k + off) % n
MaxMul == 1
MaxOff == 2
\* rides created by the workflow that one rides collection may hold
MaxCreated == 2
\* browser sessions that can run the "Add New Ride" page
NumSessions == 2

(* ------------------------- program constants -------------------------- *)
NumDrivers == 12
NumRiders == 12
NumVehicles == 12
NumRides == 15
NumZones == 12
IdWidth == 3
ZoneIdWidth == 2
RideIdWidth == 4

Collections == {"drivers", "riders", "rides", "surge_pricing", "vehicles"}
\* the delete loop with 'rides' left out of its list
DeleteOrderWithoutRides == <<"drivers", "riders", "riders", "surge_pricing", "vehicles">>
\* for col in ['drivers', 'riders', 'rides', 'surge_pricing', 'vehicles']
DeleteOrder == <<"drivers", "riders", "rides", "surge_pricing", "vehicles">>
\* the rides written first, before the drivers and riders they refer to
InsertOrderRidesFirst == <<"rides", "drivers", "riders", "vehicles", "surge_pricing">>
\* the order of the five insert_many calls
InsertOrder == <<"drivers", "riders", "vehicles", "rides", "surge_pricing">>
DriverStatuses == <<"available", "busy", "offline">>
statuses == <<"completed", "in_progress", "cancelled", "pending">>
PaymentMethods == <<"Credit Card", "PayPal", "Apple Pay", "Google Pay">>
DemandLevels == <<"low", "medium", "high", "very_high">>
Capacities == <<4, 6, 8>>
VehicleYears == <<2021, 2022, 2020, 2021, 2022, 2021, 2020, 2021, 2022, 2021, 2023, 2022>>

None == <<>>
Some(v) == <<v>>

(* ------------------------- pure helper functions ---------------------- *)
DigitChars == <<"0", "1", "2", "3", "4", "5", "6", "7", "8", "9">>

RECURSIVE str(_)
\* str(n) for a natural number n: its decimal digits
str(n) == IF n < 10 THEN DigitChars[n + 1]
          ELSE str(n \div 10) \o DigitChars[(n % 10) + 1]

RECURSIVE zfill(_, _)
\* s.zfill(width): pad with "0" on the left up to width, never truncate
zfill(s, width) == IF Len(s) >= width THEN s ELSE zfill("0" \o s, width)

\* round(num / den) to an integer, ties to the even neighbour
RoundHalfEven(num, den) ==
    LET q == num \div den
        r == num % den
    IN  IF 2 * r > den \/ (2 * r = den /\ q % 2 = 1) THEN q + 1 ELSE q

\* round(x, 2) for x given in thousandths: the result in cents
Round2(x) == RoundHalfEven(x, 10)

RECURSIVE sum(_)
\* sum([...]) over a list of numbers
sum(xs) == IF xs = <<>> THEN 0 ELSE Head(xs) + sum(Tail(xs))

(* --------------------------- random source ---------------------------- *)
RandomSource == [mul : 0..MaxMul, off : 0..MaxOff]
NoRnd == [mul |-> 0, off |-> 0]

\* the k-th draw of the source r, out of n equally likely outcomes 0..n-1
Rand(r, k, n) == (r.mul * k + r.off) % n
\* random.randint(lo, hi)
randint(r, k, lo, hi) == lo + Rand(r, k, hi - lo + 1)
\* random.choice(seq)
choice(r, k, seq) == seq[1 + Rand(r, k, Len(seq))]

(* ----------------------- synthetic generator -------------------------- *)
DriverId(i) == "DRV" \o zfill(str(i), IdWidth)
RiderId(i) == "RDR" \o zfill(str(i), IdWidth)
VehicleId(i) == "VEH" \o zfill(str(i), IdWidth)
\* the reference numbered one past the driver's own index
DriverVehicleIdOffByOne(i) == "VEH" \o zfill(str(i + 1), IdWidth)
\* the vehicle_id field of the i-th driver
DriverVehicleId(i) == "VEH" \o zfill(str(i), IdWidth)
ZoneId(i) == "ZONE" \o zfill(str(i), ZoneIdWidth)
RideId(n) == "RIDE" \o zfill(str(n), RideIdWidth)

GenDrivers(r) ==
    [i \in 1..NumDrivers |->
        [driver_id |-> DriverId(i),
         status |-> choice(r, i, DriverStatuses),
         earnings_today |-> randint(r, i + 1, 5000, 30000),
         vehicle_id |-> DriverVehicleId(i)]]

GenRiders(r) ==
    [i \in 1..NumRiders |->
        [rider_id |-> RiderId(i),
         payment_method |-> choice(r, i, PaymentMethods)]]

GenVehicles(r) ==
    [i \in 1..NumVehicles |->
        [vehicle_id |-> VehicleId(i),
         year |-> VehicleYears[i],
         capacity |-> choice(r, i, Capacities)]]

\* total_fare of a generated ride: round(base_fare * surge_multiplier, 2)
SeedTotal(base_fare, surge_multiplier) == Round2(base_fare * surge_multiplier)

\* every generated ride marked paid
PaymentStatusAlwaysPaid(status) == "paid"
\* 'paid' if status == 'completed' else 'pending'
PaymentStatus(status) == IF status = "completed" THEN "paid" ELSE "pending"

\* round(random.uniform(3.5, 5.0), 1) if status == 'completed' else None
SeedRating(r, k, status) ==
    IF status = "completed" THEN Some(randint(r, k, 35, 50)) ELSE None

\* the i-th generated ride, i = 0..14 as in "for i in range(15)"
GenRide(r, i) ==
    LET duration == randint(r, i, 10, 60)
        distance == randint(r, i + 1, 200, 2500)
        base_fare == Round2(distance * 15 + randint(r, i + 2, 2000, 5000))
        surge_multiplier == randint(r, i + 3, 10, 25)
        status == choice(r, i, statuses)
    IN  [ride_id |-> RideId(i + 1),
         driver_id |-> DriverId(randint(r, i + 4, 1, 12)),
         rider_id |-> RiderId(randint(r, i + 5, 1, 12)),
         start_time |-> Some(randint(r, i + 6, 2, 8)),
         end_time |-> Some(duration),
         status |-> status,
         distance_km |-> distance,
         duration_minutes |-> Some(duration),
         base_fare |-> base_fare,
         surge_multiplier |-> surge_multiplier,
         total_fare |-> SeedTotal(base_fare, surge_multiplier),
         payment_status |-> PaymentStatus(status),
         rating |-> SeedRating(r, i + 7, status)]

GenRides(r) == [n \in 1..NumRides |-> GenRide(r, n - 1)]

GenSurge(r) ==
    [n \in 1..NumZones |->
        [zone_id |-> ZoneId(n),
         current_surge |-> randint(r, n, 10, 28),
         demand_level |-> choice(r, n, DemandLevels)]]

Generated(col, r) ==
    CASE col = "drivers" -> GenDrivers(r)
      [] col = "riders" -> GenRiders(r)
      [] col = "vehicles" -> GenVehicles(r)
      [] col = "rides" -> GenRides(r)
      [] col = "surge_pricing" -> GenSurge(r)

(* ------------------------------- state -------------------------------- *)
VARIABLES
    db,        \* the ride_demo database: collection name -> list of documents
    seedPc,    \* initialize_database: 0 not running, k = about to run storage step k
    seedRet,   \* what the most recent initialize_database call returned
    rnd,       \* the random draws of the running seed
    mpc,       \* get_dashboard_metrics: 0 not running, k = about to run read k
    mloc,      \* its locals
    cpc,       \* per session, the position of the "Add New Ride" script run
    cloc,      \* per session, its locals
    ui         \* what the operation that finished last reported

vars == <<db, seedPc, seedRet, rnd, mpc, mloc, cpc, cloc, ui>>

Sessions == 1..NumSessions

ZeroMetrics == [total_rides |-> 0, active_drivers |-> 0, total_revenue |-> 0, avg_rating |-> 0]
NoUi == [op |-> "none", ret |-> "none", steps |-> 0, rows |-> 0, out |-> ZeroMetrics]
Report(op, ret) == [NoUi EXCEPT !.op = op, !.ret = ret]

NoMloc == [total_rides |-> 0, active_drivers |-> 0, completed_rides |-> <<>>]
NoCloc == [drivers_df |-> <<>>, riders_df |-> <<>>, driver |-> "", rider |-> "",
           distance |-> 0, surge |-> 0, base |-> 0, total |-> 0, next_id |-> 0]

Init ==
    /\ db = [c \in Collections |-> <<>>]
    /\ seedPc = 0
    /\ seedRet = "none"
    /\ rnd = NoRnd
    /\ mpc = 0
    /\ mloc = NoMloc
    /\ cpc = [s \in Sessions |-> "idle"]
    /\ cloc = [s \in Sessions |-> NoCloc]
    /\ ui = NoUi

\* no operation is in progress
Idle == seedPc = 0 /\ mpc = 0 /\ \A s \in Sessions : cpc[s] = "idle"

(* ------------------------- initialize_database ------------------------ *)
\* the "Initialize Database" button: the call enters its try block
SeedEnter ==
    /\ seedPc = 0
    /\ seedPc' = 1
    /\ seedRet' = "running"
    /\ ui' = NoUi
    /\ UNCHANGED <<db, rnd, mpc, mloc, cpc, cloc>>

SeedBegin == Idle /\ SeedEnter

\* db[col].delete_many({}) for the next collection of the loop
SeedDeleteMany ==
    /\ seedPc \in 1..5
    /\ db' = [db EXCEPT ![DeleteOrder[seedPc]] = <<>>]
    /\ seedPc' = seedPc + 1
    /\ UNCHANGED <<seedRet, rnd, mpc, mloc, cpc, cloc, ui>>

\* db.<col>.insert_many(<generated list>); after the last one, return True
SeedInsertMany ==
    /\ seedPc \in 6..10
    /\ \E r \in RandomSource :
         /\ seedPc > 6 => r = rnd
         /\ db' = [db EXCEPT ![InsertOrder[seedPc - 5]] = @ \o Generated(InsertOrder[seedPc - 5], r)]
         /\ IF seedPc = 10
            THEN /\ seedPc' = 0
                 /\ seedRet' = "True"
                 /\ rnd' = NoRnd
                 /\ ui' = [Report("seed", "True") EXCEPT !.steps = 10]
            ELSE /\ seedPc' = seedPc + 1
                 /\ rnd' = r
                 /\ UNCHANGED <<seedRet, ui>>
    /\ UNCHANGED <<mpc, mloc, cpc, cloc>>

\* the failure reported as a success
SeedFailReportsSuccess ==
    /\ seedPc \in 1..10
    /\ seedPc' = 0
    /\ seedRet' = "True"
    /\ rnd' = NoRnd
    /\ ui' = [Report("seed", "True") EXCEPT !.steps = seedPc - 1]
    /\ UNCHANGED <<db, mpc, mloc, cpc, cloc>>

\* a storage step raises: except Exception -> st.error, return False
SeedFail ==
    /\ seedPc \in 1..10
    /\ seedPc' = 0
    /\ seedRet' = "False"
    /\ rnd' = NoRnd
    /\ ui' = [Report("seed", "False") EXCEPT !.steps = seedPc - 1]
    /\ UNCHANGED <<db, mpc, mloc, cpc, cloc>>

(* ------------------------------ data access --------------------------- *)
IsAvailable(d) == d.status = "available"
\* the status filter of the revenue query matching every ride
IsCompletedMatchesAll(ride) == TRUE
\* the filter {"status": "completed"}
IsCompleted(ride) == ride.status = "completed"
HasRating(ride) == ride.rating # None

\* db.drivers.count_documents({"status": "available"})
CountAvailable(drivers) == Len(SelectSeq(drivers, IsAvailable))

\* sum([ride.get('total_fare', 0) for ride in completed_rides])
TotalRevenue(completed_rides) ==
    sum([i \in 1..Len(completed_rides) |-> completed_rides[i].total_fare])

\* round(sum([r['rating'] ...]) / len(rides_with_rating), 2) if rides_with_rating else 0
\* (ratings are in tenths, the result is in hundredths)
AvgRating(rides_with_rating) ==
    IF rides_with_rating # <<>>
    THEN RoundHalfEven(
             10 * sum([i \in 1..Len(rides_with_rating) |-> rides_with_rating[i].rating[1]]),
             Len(rides_with_rating))
    ELSE 0

\* the dashboard page calls get_dashboard_metrics: the call enters its try block
MetricsEnter ==
    /\ mpc = 0
    /\ mpc' = 1
    /\ ui' = NoUi
    /\ UNCHANGED <<db, seedPc, seedRet, rnd, mloc, cpc, cloc>>

MetricsBegin == Idle /\ MetricsEnter

\* total_rides = db.rides.count_documents({})
MetricsCountRides ==
    /\ mpc = 1
    /\ mloc' = [mloc EXCEPT !.total_rides = Len(db["rides"])]
    /\ mpc' = 2
    /\ UNCHANGED <<db, seedPc, seedRet, rnd, cpc, cloc, ui>>

\* active_drivers = db.drivers.count_documents({"status": "available"})
MetricsCountDrivers ==
    /\ mpc = 2
    /\ mloc' = [mloc EXCEPT !.active_drivers = CountAvailable(db["drivers"])]
    /\ mpc' = 3
    /\ UNCHANGED <<db, seedPc, seedRet, rnd, cpc, cloc, ui>>

\* completed_rides = list(db.rides.find({"status": "completed"}))
MetricsFindCompleted ==
    /\ mpc = 3
    /\ mloc' = [mloc EXCEPT !.completed_rides = SelectSeq(db["rides"], IsCompleted)]
    /\ mpc' = 4
    /\ UNCHANGED <<db, seedPc, seedRet, rnd, cpc, cloc, ui>>

\* rides_with_rating = list(db.rides.find({"rating": {"$ne": None}})), then the return
MetricsFindRated ==
    /\ mpc = 4
    /\ LET rides_with_rating == SelectSeq(db["rides"], HasRating)
       IN  ui' = [Report("get_dashboard_metrics", "ok") EXCEPT
                    !.out = [total_rides |-> mloc.total_rides,
                             active_drivers |-> mloc.active_drivers,
                             total_revenue |-> TotalRevenue(mloc.completed_rides),
                             avg_rating |-> AvgRating(rides_with_rating)]]
    /\ mpc' = 0
    /\ mloc' = NoMloc
    /\ UNCHANGED <<db, seedPc, seedRet, rnd, cpc, cloc>>

\* one of the four reads raises: except Exception -> st.error, return the zero dict
MetricsFail ==
    /\ mpc \in 1..4
    /\ ui' = Report("get_dashboard_metrics", "error")
    /\ mpc' = 0
    /\ mloc' = NoMloc
    /\ UNCHANGED <<db, seedPc, seedRet, rnd, cpc, cloc>>

\* get_all_drivers(db): the rows, or an empty DataFrame when the read raises
get_all_drivers(ok) == IF ok THEN db["drivers"] ELSE <<>>
\* get_all_rides(db): the rows (the order of the DataFrame is not modelled)
get_all_rides(ok) == IF ok THEN db["rides"] ELSE <<>>
\* get_surge_data(db)
get_surge_data(ok) == IF ok THEN db["surge_pricing"] ELSE <<>>

Query(op, ok, df) ==
    /\ ui' = [Report(op, IF ok THEN "ok" ELSE "error") EXCEPT !.rows = Len(df)]
    /\ UNCHANGED <<db, seedPc, seedRet, rnd, mpc, mloc, cpc, cloc>>

\* the "Real-Time Rides" and "Analytics" pages
ViewRides == Idle /\ \E ok \in BOOLEAN : Query("get_all_rides", ok, get_all_rides(ok))
\* the "Driver Management" page
ViewDrivers == Idle /\ \E ok \in BOOLEAN : Query("get_all_drivers", ok, get_all_drivers(ok))
\* the "Surge Pricing" page
ViewSurge == Idle /\ \E ok \in BOOLEAN : Query("get_surge_data", ok, get_surge_data(ok))

(* ------------------------------ Add New Ride ------------------------- *)
\* what the user puts in the form: the positions picked in the two select
\* boxes, the distance (hundredths of a km, min_value 0.5) and the surge
\* (tenths, slider 1.0 .. 3.0); the first one is the form's defaults
FormInputs ==
    {[rider_pick |-> 1, driver_pick |-> 1, distance |-> 500, surge |-> 10],
     [rider_pick |-> 2, driver_pick |-> 2, distance |-> 70, surge |-> 15],
     [rider_pick |-> 12, driver_pick |-> 3, distance |-> 51, surge |-> 30]}

Min(a, b) == IF a < b THEN a ELSE b

\* the option of a select box at position pick (the last one if there are fewer)
Selected(options, pick) == options[Min(pick, Len(options))]

\* the status filter left out: every driver is offered in the select box
AvailableUnfiltered(drivers_df) == drivers_df
\* available = drivers_df[drivers_df['status'] == 'available']
Available(drivers_df) == SelectSeq(drivers_df, IsAvailable)

\* the base charge of 3.0 left out
NewBaseWithoutCharge(distance) == Round2(distance * 15)
\* base = round(distance * 1.5 + 3.0, 2)
NewBase(distance) == Round2(distance * 15 + 3000)
\* the surge left out of the total
NewTotalWithoutSurge(base, surge) == Round2(base * 10)
\* total = round(base * surge, 2)
NewTotal(base, surge) == Round2(base * surge)
\* the id taken from the count itself
NextIdWithoutIncrement(count) == count
\* next_id = db.rides.count_documents({}) + 1
NextId(count) == count + 1

\* the ride_id taken from a count read again at the insert
NewRideCountedAtInsert(loc) ==
    [ride_id |-> RideId(Len(db["rides"]) + 1),
     driver_id |-> loc.driver,
     rider_id |-> loc.rider,
     start_time |-> None,
     end_time |-> None,
     status |-> "pending",
     distance_km |-> loc.distance,
     duration_minutes |-> None,
     base_fare |-> loc.base,
     surge_multiplier |-> loc.surge,
     total_fare |-> loc.total,
     payment_status |-> "pending",
     rating |-> None]
\* the new_ride document built from the locals of the script run
NewRide(loc) ==
    [ride_id |-> RideId(loc.next_id),
     driver_id |-> loc.driver,
     rider_id |-> loc.rider,
     start_time |-> None,
     end_time |-> None,
     status |-> "pending",
     distance_km |-> loc.distance,
     duration_minutes |-> None,
     base_fare |-> loc.base,
     surge_multiplier |-> loc.surge,
     total_fare |-> loc.total,
     payment_status |-> "pending",
     rating |-> None]

\* rides that the workflow created (the generator always sets start_time)
IsCreated(ride) == ride.start_time = None
NumCreated(rides) == Len(SelectSeq(rides, IsCreated))

\* the script run of session s ends: its locals are gone, the page shows ret
CreateEnd(s, ret) ==
    /\ cpc' = [cpc EXCEPT ![s] = "idle"]
    /\ cloc' = [cloc EXCEPT ![s] = NoCloc]
    /\ ui' = Report("create_ride", ret)

\* session s runs the script with page = "Add New Ride"
CreateEnter(s) ==
    /\ cpc[s] = "idle"
    /\ cpc' = [cpc EXCEPT ![s] = "drivers"]
    /\ ui' = NoUi
    /\ UNCHANGED <<db, seedPc, seedRet, rnd, mpc, mloc, cloc>>

CreateBegin(s) == Idle /\ CreateEnter(s)

\* drivers_df = get_all_drivers(db): a failed read is caught and gives no rows
CreateGetAllDrivers(s) ==
    /\ cpc[s] = "drivers"
    /\ \E ok \in BOOLEAN :
         cloc' = [cloc EXCEPT ![s].drivers_df = get_all_drivers(ok)]
    /\ cpc' = [cpc EXCEPT ![s] = "riders"]
    /\ UNCHANGED <<db, seedPc, seedRet, rnd, mpc, mloc, ui>>

\* riders_df = pd.DataFrame(list(db.riders.find({}, {'_id': 0}))), outside any try
CreateFindRiders(s) ==
    /\ cpc[s] = "riders"
    /\ \/ /\ cloc' = [cloc EXCEPT ![s].riders_df = db["riders"]]
          /\ cpc' = [cpc EXCEPT ![s] = "form"]
          /\ UNCHANGED ui
       \/ CreateEnd(s, "unhandled")
    /\ UNCHANGED <<db, seedPc, seedRet, rnd, mpc, mloc>>

\* no drivers or no riders: "Initialize the database ..."; no available driver:
\* "No available drivers right now." and return
CreateRefuse(s) ==
    /\ cpc[s] = "form"
    /\ \/ /\ cloc[s].drivers_df = <<>> \/ cloc[s].riders_df = <<>>
          /\ CreateEnd(s, "refused_no_data")
       \/ /\ cloc[s].drivers_df # <<>> /\ cloc[s].riders_df # <<>>
          /\ Available(cloc[s].drivers_df) = <<>>
          /\ CreateEnd(s, "refused_no_driver")
    /\ UNCHANGED <<db, seedPc, seedRet, rnd, mpc, mloc>>

CanSubmit(s) ==
    /\ cpc[s] = "form"
    /\ cloc[s].drivers_df # <<>> /\ cloc[s].riders_df # <<>>
    /\ Available(cloc[s].drivers_df) # <<>>

\* the form is rendered and the run ends without a submission
CreateNoSubmit(s) ==
    /\ CanSubmit(s)
    /\ CreateEnd(s, "form")
    /\ UNCHANGED <<db, seedPc, seedRet, rnd, mpc, mloc>>

\* submitted: the widgets' values, base and total
CreateSubmit(s) ==
    /\ CanSubmit(s)
    /\ NumCreated(db["rides"]) < MaxCreated
    /\ \E f \in FormInputs :
         LET base == NewBase(f.distance)
         IN  cloc' = [cloc EXCEPT
                 ![s].rider = Selected(cloc[s].riders_df, f.rider_pick).rider_id,
                 ![s].driver = Selected(Available(cloc[s].drivers_df), f.driver_pick).driver_id,
                 ![s].distance = f.distance,
                 ![s].surge = f.surge,
                 ![s].base = base,
                 ![s].total = NewTotal(base, f.surge)]
    /\ cpc' = [cpc EXCEPT ![s] = "count"]
    /\ UNCHANGED <<db, seedPc, seedRet, rnd, mpc, mloc, ui>>

\* next_id = db.rides.count_documents({}) + 1, outside any try
CreateCount(s) ==
    /\ cpc[s] = "count"
    /\ \/ /\ cloc' = [cloc EXCEPT ![s].next_id = NextId(Len(db["rides"]))]
          /\ cpc' = [cpc EXCEPT ![s] = "insert"]
          /\ UNCHANGED ui
       \/ CreateEnd(s, "unhandled")
    /\ UNCHANGED <<db, seedPc, seedRet, rnd, mpc, mloc>>

\* the insert also marking the assigned driver busy
CreateInsertOneMarkingDriverBusy(s) ==
    /\ cpc[s] = "insert"
    /\ db' = [db EXCEPT
               !["rides"] = Append(@, NewRide(cloc[s])),
               !["drivers"] = [i \in 1..Len(@) |->
                   IF @[i].driver_id = cloc[s].driver
                   THEN [@[i] EXCEPT !.status = "busy"]
                   ELSE @[i]]]
    /\ CreateEnd(s, "created")
    /\ UNCHANGED <<seedPc, seedRet, rnd, mpc, mloc>>

\* try: db.rides.insert_one(new_ride) ... except Exception: st.error
CreateInsertOne(s) ==
    /\ cpc[s] = "insert"
    /\ \/ /\ db' = [db EXCEPT !["rides"] = Append(@, NewRide(cloc[s]))]
          /\ CreateEnd(s, "created")
       \/ /\ CreateEnd(s, "error")
          /\ UNCHANGED db
    /\ UNCHANGED <<seedPc, seedRet, rnd, mpc, mloc>>

Next ==
    \/ SeedBegin
    \/ SeedDeleteMany
    \/ SeedInsertMany
    \/ SeedFail
    \/ MetricsBegin
    \/ MetricsCountRides
    \/ MetricsCountDrivers
    \/ MetricsFindCompleted
    \/ MetricsFindRated
    \/ MetricsFail
    \/ ViewRides
    \/ ViewDrivers
    \/ ViewSurge
    \/ \E s \in Sessions :
         \/ CreateBegin(s)
         \/ CreateGetAllDrivers(s)
         \/ CreateFindRiders(s)
         \/ CreateRefuse(s)
         \/ CreateNoSubmit(s)
         \/ CreateSubmit(s)
         \/ CreateCount(s)
         \/ CreateInsertOne(s)

Spec == Init /\ [][Next]_vars

(* ----------------------- overlapping operations ------------------------ *)
\* Several script runs against the same storage, whose storage steps
\* interleave.  Two settings are kept apart, each with the overlap it is about.

\* the form as it is first rendered: the first rider, the first available
\* driver, value=5.0 for the distance and 1.0 for the surge slider
DefaultForm == [rider_pick |-> 1, driver_pick |-> 1, distance |-> 500, surge |-> 10]

\* the form is submitted with the values it was rendered with
CreateSubmitDefaults(s) ==
    /\ CreateSubmit(s)
    /\ cloc'[s].rider = Selected(cloc[s].riders_df, DefaultForm.rider_pick).rider_id
    /\ cloc'[s].driver =
          Selected(Available(cloc[s].drivers_df), DefaultForm.driver_pick).driver_id
    /\ cloc'[s].distance = DefaultForm.distance
    /\ cloc'[s].surge = DefaultForm.surge

\* session s opens "Add New Ride" while at most one other session is inside
\* its own creation (no seed and no dashboard read is running)
CreateOverlapping(s) ==
    /\ seedPc = 0 /\ mpc = 0
    /\ \A t, u \in Sessions : (cpc[t] # "idle" /\ cpc[u] # "idle") => t = u
    /\ CreateEnter(s)

\* racing writers: two sessions' creations overlap each other; the seed runs
\* to its end while no session is inside a creation
NextRace ==
    \/ SeedBegin
    \/ SeedDeleteMany
    \/ SeedInsertMany
    \/ \E s \in Sessions :
         \/ CreateOverlapping(s)
         \/ CreateGetAllDrivers(s)
         \/ CreateFindRiders(s)
         \/ CreateRefuse(s)
         \/ CreateNoSubmit(s)
         \/ CreateSubmitDefaults(s)
         \/ CreateCount(s)
         \/ CreateInsertOne(s)

SpecRace == Init /\ [][NextRace]_vars

\* no other reader is inside its run; a seed may be
NoReader == mpc = 0 /\ \A t \in Sessions : cpc[t] = "idle"

\* the dashboard is rendered while a seed may be between two of its steps
MetricsBesideSeed == NoReader /\ MetricsEnter

\* session s opens "Add New Ride" while a seed may be between two of its steps
\* (one reader runs at a time, so the first session stands for all of them)
CreateBesideSeed(s) == (\A t \in Sessions : s <= t) /\ NoReader /\ CreateEnter(s)

\* a seed overlapping one reader: the seed button is pressed at any moment, and
\* a dashboard read or a creation takes its storage steps between the seed's
NextReseed ==
    \/ SeedEnter
    \/ SeedDeleteMany
    \/ SeedInsertMany
    \/ MetricsBesideSeed
    \/ MetricsCountRides
    \/ MetricsCountDrivers
    \/ MetricsFindCompleted
    \/ MetricsFindRated
    \/ \E s \in Sessions :
         \/ CreateBesideSeed(s)
         \/ CreateGetAllDrivers(s)
         \/ CreateFindRiders(s)
         \/ CreateRefuse(s)
         \/ CreateNoSubmit(s)
         \/ CreateSubmitDefaults(s)
         \/ CreateCount(s)
         \/ CreateInsertOne(s)

SpecReseed == Init /\ [][NextReseed]_vars

(* ------------------------------ properties ---------------------------- *)
Rides == db["rides"]
RideAt == {Rides[i] : i \in 1..Len(Rides)}

\* C1: when initialize_database has just returned True, each of the five
\* collections holds exactly one freshly generated batch (12 drivers, 12
\* riders, 12 vehicles, 15 rides, 12 surge zones) and nothing of what the
\* storage held before.
C1_SeedReplacesAll ==
    (ui.op = "seed" /\ ui.ret = "True") =>
        /\ Len(db["drivers"]) = 12 /\ Len(db["riders"]) = 12
        /\ Len(db["vehicles"]) = 12 /\ Len(db["rides"]) = 15
        /\ Len(db["surge_pricing"]) = 12
        /\ \E r \in RandomSource : \A c \in Collections : db[c] = Generated(c, r)

\* a seed has returned True and the storage holds the 15 generated rides
C1_Witness ==
    /\ ui.op = "seed" /\ ui.ret = "True"
    /\ Len(Rides) = 15 /\ \A i \in 1..15 : ~IsCreated(Rides[i])

\* C2: every stored ride has total_fare = round(base_fare * surge_multiplier, 2),
\* base_fare >= 0 and surge_multiplier >= 1.0, whether generated or created.
C2_TotalFare ==
    \A ride \in RideAt :
        /\ ride.total_fare = Round2(ride.base_fare * ride.surge_multiplier)
        /\ ride.base_fare >= 0
        /\ ride.surge_multiplier >= 10

\* the storage holds a generated and a created ride, both with a surge above 1.0
C2_Witness ==
    /\ \E ride \in RideAt : IsCreated(ride) /\ ride.surge_multiplier > 10
    /\ \E ride \in RideAt : ~IsCreated(ride) /\ ride.surge_multiplier > 10

\* C3: every stored ride is paid iff it is completed and has a rating iff it is
\* completed; any other ride has no rating and payment_status = pending.
C3_PaidAndRatedIffCompleted ==
    \A ride \in RideAt :
        /\ ride.payment_status = "paid" <=> ride.status = "completed"
        /\ ride.rating # None <=> ride.status = "completed"
        /\ ride.status # "completed" =>
              ride.rating = None /\ ride.payment_status = "pending"

\* the storage holds a completed ride, a generated ride that is not completed
\* and a created ride
C3_Witness ==
    /\ \E ride \in RideAt : ride.status = "completed"
    /\ \E ride \in RideAt : ~IsCreated(ride) /\ ride.status # "completed"
    /\ \E ride \in RideAt : IsCreated(ride)

Last(xs) == xs[Len(xs)]
OthersUnchanged == \A c \in Collections \ {"rides"} : db'[c] = db[c]

\* C4: a ride creation that finds no driver with status = available in storage
\* is refused and leaves the five collections as they were (no creation gets
\* as far as counting or inserting), and a created ride carries the driver_id
\* of a driver that is available in the drivers snapshot that creation read.
C4_RefusedWithoutAvailableDriver ==
    [][\A s \in Sessions :
        LET snapshot == cloc[s].drivers_df
            none_available ==
                \A i \in 1..Len(db["drivers"]) : db["drivers"][i].status # "available"
        IN  /\ (cpc[s] = "form" /\ none_available) =>
                  /\ db' = db
                  /\ cpc'[s] = "idle"
                  /\ ui'.ret \in {"refused_no_data", "refused_no_driver"}
            /\ (cpc[s] \in {"count", "insert"}) => ~none_available
            /\ (cpc[s] = "insert" /\ db' # db) =>
                  \E i \in 1..Len(snapshot) :
                      /\ snapshot[i].status = "available"
                      /\ snapshot[i].driver_id = Last(db'["rides"]).driver_id
    ]_vars

\* a creation was refused although drivers and riders are stored: all busy or offline
C4_Witness ==
    /\ ui.op = "create_ride" /\ ui.ret = "refused_no_driver"
    /\ Len(db["drivers"]) = 12 /\ Len(db["riders"]) = 12

\* C5: a successful creation with distance d and surge s appends exactly one
\* ride, with status pending, null start_time, end_time, duration_minutes and
\* rating, payment_status pending, base_fare = round(d * 1.5 + 3.0, 2) and
\* total_fare = round(base_fare * s, 2); d = 5.0, s = 1.0 gives 10.5 and 10.5.
C5_CreatedRide ==
    [][\A s \in Sessions :
        (cpc[s] = "insert" /\ ui'.op = "create_ride" /\ ui'.ret = "created") =>
            LET ride == Last(db'["rides"])
                d == cloc[s].distance
                sg == cloc[s].surge
            IN  /\ db'["rides"] = Append(db["rides"], ride)
                /\ OthersUnchanged
                /\ ride.status = "pending"
                /\ ride.start_time = None /\ ride.end_time = None
                /\ ride.duration_minutes = None /\ ride.rating = None
                /\ ride.payment_status = "pending"
                /\ ride.distance_km = d /\ ride.surge_multiplier = sg
                /\ ride.base_fare = Round2(d * 15 + 3000)
                /\ ride.total_fare = Round2(ride.base_fare * sg)
                /\ (d = 500 /\ sg = 10) =>
                      ride.base_fare = 1050 /\ ride.total_fare = 1050
    ]_vars

\* a ride was just created with distance 5.0 and surge 1.0: both fares are 10.5
C5_Witness ==
    /\ ui.op = "create_ride" /\ ui.ret = "created"
    /\ Rides # <<>>
    /\ Last(Rides).distance_km = 500 /\ Last(Rides).surge_multiplier = 10
    /\ Last(Rides).base_fare = 1050 /\ Last(Rides).total_fare = 1050
    /\ Last(Rides).status = "pending" /\ Last(Rides).rating = None

\* the ride ids of the counts that creations meet, written out
C6_Expected(n) ==
    CASE n = 1 -> "RIDE0001" [] n = 2 -> "RIDE0002" [] n = 3 -> "RIDE0003"
      [] n = 4 -> "RIDE0004" [] n = 16 -> "RIDE0016" [] n = 17 -> "RIDE0017"
      [] n = 18 -> "RIDE0018" [] n = 19 -> "RIDE0019"

\* C6: with operations running one at a time, ride_id is unique in the rides
\* collection after any sequence of seeds (successful or failed) and
\* creations; a created ride gets "RIDE" + (rides stored at creation + 1)
\* padded to 4 digits, which no stored ride has.
C6_UniqueRideIds ==
    [][/\ db'["rides"] # db["rides"] =>
             \A i, j \in 1..Len(db'["rides"]) :
                 i # j => db'["rides"][i].ride_id # db'["rides"][j].ride_id
       /\ \A s \in Sessions :
             (cpc[s] = "insert" /\ db' # db) =>
                 LET id == Last(db'["rides"]).ride_id
                 IN  /\ id = C6_Expected(Len(db["rides"]) + 1)
                     /\ \A i \in 1..Len(db["rides"]) : db["rides"][i].ride_id # id
    ]_vars

\* a failed seed left no rides, and two rides were created since
C6_Witness ==
    /\ seedRet = "False"
    /\ Len(Rides) = 2
    /\ Rides[1].ride_id = "RIDE0001" /\ Rides[2].ride_id = "RIDE0002"

\* the total_fare of the completed rides among the first k, added up
C7_Revenue[k \in 0..Len(Rides)] ==
    IF k = 0 THEN 0
    ELSE C7_Revenue[k - 1]
           + (IF Rides[k].status = "completed" THEN Rides[k].total_fare ELSE 0)

\* the ratings of the rated rides among the first k, added up
C7_RatingSum[k \in 0..Len(Rides)] ==
    IF k = 0 THEN 0
    ELSE C7_RatingSum[k - 1]
           + (IF Rides[k].rating # <<>> THEN Rides[k].rating[1] ELSE 0)

C7_Abs(x) == IF x < 0 THEN -x ELSE x

\* what get_dashboard_metrics has to return on the stored rides and drivers
C7_Expected(out) ==
    LET completed == {i \in 1..Len(Rides) : Rides[i].status = "completed"}
        rated == {i \in 1..Len(Rides) : Rides[i].rating # <<>>}
        n == Cardinality(rated)
    IN  /\ out.total_rides = Len(Rides)
        /\ out.active_drivers =
              Cardinality({i \in 1..Len(db["drivers"]) : db["drivers"][i].status = "available"})
        /\ out.total_revenue = C7_Revenue[Len(Rides)]
        /\ completed = {} => out.total_revenue = 0
        \* the mean of the ratings (tenths) to the nearest hundredth
        /\ n > 0 => 2 * C7_Abs(10 * C7_RatingSum[Len(Rides)] - out.avg_rating * n) <= n
        /\ n = 0 => out.avg_rating = 0
        /\ (Rides = <<>> /\ db["drivers"] = <<>>) =>
              out = [total_rides |-> 0, active_drivers |-> 0,
                     total_revenue |-> 0, avg_rating |-> 0]

\* the metrics on the page are those of the storage
C7_Returned ==
    (ui.op = "get_dashboard_metrics" /\ ui.ret = "ok") => C7_Expected(ui.out)

\* C7: get_dashboard_metrics, when its reads succeed, returns the number of
\* rides, the number of available drivers, the sum of total_fare over the
\* completed rides (0 if none) and the mean rating of the rated rides rounded to
\* 2 decimals (0 if none); all four are 0 on an empty dataset; no step of it
\* changes the storage.
C7_DashboardMetrics ==
    [][/\ mpc # 0 => db' = db
       /\ C7_Returned'
    ]_vars

\* the metrics of a storage with 16 rides, some completed and rated, and
\* available drivers were returned
C7_Witness ==
    /\ ui.op = "get_dashboard_metrics" /\ ui.ret = "ok"
    /\ ui.out.total_rides = 16 /\ ui.out.active_drivers > 0
    /\ ui.out.total_revenue > 0 /\ ui.out.avg_rating > 0

\* C8: no storage failure leaves an operation as an unhandled fault: every
\* operation ends with a reported value or message.
C8_NoUnhandledFailure == ui.ret # "unhandled"

\* the collections that the first k steps of a seed deleted and did not refill
C9_Emptied(k) ==
    {DeleteOrder[i] : i \in 1..(IF k < 5 THEN k ELSE 5)}
        \ {InsertOrder[j - 5] : j \in 6..k}

\* C9: a seed whose storage step k fails stops there: it returns False, the
\* failing step and the steps after it change nothing (what steps 1..k-1 wrote
\* stays), and True is returned only after all ten steps succeeded.
C9_SeedAbortsOnFailure ==
    [][/\ (seedPc # 0 /\ seedPc' = 0 /\ seedRet' = "False") =>
             /\ db' = db
             /\ ui'.op = "seed" /\ ui'.ret = "False" /\ ui'.steps = seedPc - 1
       /\ (seedRet' = "True" /\ seedPc # 0 /\ seedPc' = 0) =>
             /\ seedPc = 10 /\ db' # db
             /\ ui'.op = "seed" /\ ui'.ret = "True" /\ ui'.steps = 10
       /\ (ui'.op = "seed" /\ ui'.ret = "True") =>
             (ui'.steps = 10 /\ \A c \in Collections : db'[c] # <<>>)
       /\ (ui'.op = "seed" /\ ui'.ret = "False") =>
             /\ ui'.steps < 10
             /\ \A c \in C9_Emptied(ui'.steps) : db'[c] = <<>>
             /\ \A j \in 6..ui'.steps :
                   Len(db'[InsertOrder[j - 5]]) = (IF InsertOrder[j - 5] = "rides" THEN 15 ELSE 12)
       /\ seedPc' \in {seedPc, seedPc + 1, 0}
    ]_vars

\* a seed failed at the insert of the rides: drivers, riders and vehicles are
\* written, rides and surge zones are empty, and False was returned
C9_Witness ==
    /\ ui.op = "seed" /\ ui.ret = "False" /\ ui.steps = 8
    /\ Len(db["drivers"]) = 12 /\ Len(db["vehicles"]) = 12
    /\ db["rides"] = <<>> /\ db["surge_pricing"] = <<>>

\* every driver's vehicle is stored and every vehicle has exactly one driver
DriverVehicleBijection ==
    LET D == db["drivers"]
        V == db["vehicles"]
    IN  /\ \A i \in 1..Len(D) : \E j \in 1..Len(V) : V[j].vehicle_id = D[i].vehicle_id
        /\ \A j \in 1..Len(V) :
              Cardinality({i \in 1..Len(D) : D[i].vehicle_id = V[j].vehicle_id}) = 1

\* C10 as stated: the driver <-> vehicle bijection holds in every reachable
\* state, the states inside a seed and after a failed seed included.
C10_BijectionAlways == DriverVehicleBijection

\* C10 as amended: the bijection holds whenever no seed is running and the
\* most recent seed, if there was one, returned True.
C10_BijectionAfterSeed ==
    (seedPc = 0 /\ seedRet \in {"none", "True"}) => DriverVehicleBijection

\* the last seed succeeded, a ride was created since, and the 12 drivers and 12
\* vehicles are stored
C10_Witness ==
    /\ seedPc = 0 /\ seedRet = "True"
    /\ ui.op = "create_ride" /\ ui.ret = "created"
    /\ Len(db["drivers"]) = 12 /\ Len(db["vehicles"]) = 12

\* C11: the count read at line 407 reserves nothing.  A session that counts
\* while another session holds the id of the same count and has not inserted
\* yet gets the same next_id; an insert stores the id of the count its session
\* read earlier, whatever the collection holds by then, and leaves the ids the
\* other sessions hold as they are; so when two sessions hold the same next_id
\* and one inserts, the other is about to insert a ride_id that is stored.
C11_OverlappingCreationsShareRideId ==
    [][\A s \in Sessions :
        /\ (cpc[s] = "count" /\ cpc'[s] = "insert") =>
              /\ cloc'[s].next_id = Len(db["rides"]) + 1
              /\ db' = db
              /\ \A t \in Sessions \ {s} :
                    (cpc[t] = "insert" /\ cloc[t].next_id = Len(db["rides"]) + 1) =>
                        cloc'[s].next_id = cloc'[t].next_id
        /\ (cpc[s] = "insert" /\ cpc'[s] = "idle" /\ db' # db) =>
              /\ Last(db'["rides"]).ride_id = RideId(cloc[s].next_id)
              /\ \A t \in Sessions \ {s} :
                    /\ cloc'[t] = cloc[t] /\ cpc'[t] = cpc[t]
                    /\ (cpc[t] = "insert" /\ cloc[t].next_id = cloc[s].next_id) =>
                          \E i \in 1..Len(db'["rides"]) :
                              db'["rides"][i].ride_id = RideId(cloc'[t].next_id)
    ]_vars

\* two of the stored rides were created through the form and carry the same
\* ride_id, the second of them by the creation that has just returned
C11_Witness ==
    /\ ui.op = "create_ride" /\ ui.ret = "created"
    /\ \E i, j \in 1..Len(Rides) :
          /\ i < j /\ j = Len(Rides)
          /\ IsCreated(Rides[i]) /\ IsCreated(Rides[j])
          /\ Rides[i].ride_id = Rides[j].ride_id

\* C12: a seed is a run of ten separate storage steps and a reader's steps can
\* fall between them.  While the seed is between its insert of the drivers and
\* its insert of the rides, storage holds the 12 new drivers and no seeded ride;
\* between the delete and the insert of the drivers it holds no driver.  Every
\* read of the dashboard and of a creation returns what storage holds at that
\* step, seed running or not: total_rides is the number of rides stored at its
\* read, active_drivers the available drivers stored at its read, and a
\* creation's next_id is the number of rides stored at its count plus one,
\* which inside the window counts only the rides created in the window.
C12_ReaderInsideSeed ==
    [][/\ seedPc \in 7..9 =>
             /\ Len(db["drivers"]) = 12
             /\ \A ride \in RideAt : IsCreated(ride)
       /\ seedPc \in 2..6 => db["drivers"] = <<>>
       /\ seedPc \in 4..9 => Len(db["rides"]) = NumCreated(db["rides"])
       /\ (mpc = 1 /\ mpc' = 2) => mloc'.total_rides = Len(db["rides"])
       /\ (mpc = 2 /\ mpc' = 3) =>
             mloc'.active_drivers = CountAvailable(db["drivers"])
       /\ (mpc = 4 /\ mpc' = 0 /\ ui'.ret = "ok") =>
             /\ ui'.out.total_rides = mloc.total_rides
             /\ ui'.out.active_drivers = mloc.active_drivers
       /\ \A s \in Sessions :
             /\ (cpc[s] = "drivers" /\ cpc'[s] = "riders") =>
                   cloc'[s].drivers_df \in {db["drivers"], <<>>}
             /\ (cpc[s] = "count" /\ cpc'[s] = "insert") =>
                   /\ cloc'[s].next_id = Len(db["rides"]) + 1
                   /\ seedPc \in 4..9 =>
                         cloc'[s].next_id = NumCreated(db["rides"]) + 1
    ]_vars

\* the dashboard has returned total_rides = 0 together with active_drivers > 0
\* while the seed is between its insert of the drivers and that of the rides
C12_Witness ==
    /\ seedPc \in 7..9
    /\ ui.op = "get_dashboard_metrics" /\ ui.ret = "ok"
    /\ ui.out.total_rides = 0 /\ ui.out.active_drivers > 0
    /\ db["rides"] = <<>> /\ Len(db["drivers"]) = 12

\* a creation that ran inside that window has stored RIDE0001, the id of the
\* intermediate count, and the seed has since added its 15 rides after it
C12_CreatedInsideSeed ==
    /\ seedPc = 0 /\ seedRet = "True"
    /\ Len(Rides) = 16
    /\ IsCreated(Rides[1]) /\ Rides[1].ride_id = "RIDE0001"
    /\ ~IsCreated(Rides[2]) /\ Rides[2].ride_id = "RIDE0001"

\* C13: a ride creation that stores its ride appends it: the rides stored
\* before are the same documents at the same positions, the drivers, riders,
\* vehicles and surge zones are what they were, and the assigned driver is
\* stored with status available and the record it had before.  No step other
\* than a step of the seed removes or changes a stored ride or changes the
\* drivers collection (no accept, start, complete or cancel).
C13_CreationOnlyAppends ==
    [][/\ \A s \in Sessions :
             (cpc[s] = "insert" /\ cpc'[s] = "idle" /\ ui'.ret = "created") =>
                 /\ Len(db'["rides"]) = Len(db["rides"]) + 1
                 /\ SubSeq(db'["rides"], 1, Len(db["rides"])) = db["rides"]
                 /\ OthersUnchanged
                 /\ \E i \in 1..Len(db'["drivers"]) :
                       /\ db'["drivers"][i].driver_id = Last(db'["rides"]).driver_id
                       /\ db'["drivers"][i].status = "available"
                       /\ db'["drivers"][i] = db["drivers"][i]
       /\ (db' # db /\ ~(seedPc \in 1..10 /\ seedPc' # seedPc)) =>
             /\ Len(db'["rides"]) >= Len(db["rides"])
             /\ SubSeq(db'["rides"], 1, Len(db["rides"])) = db["rides"]
             /\ OthersUnchanged
    ]_vars

\* after a seed two rides were created one after the other: both are stored
\* behind the 15 seeded rides, and the driver of the second is still stored
\* with status available
C13_Witness ==
    /\ seedRet = "True" /\ seedPc = 0
    /\ ui.op = "create_ride" /\ ui.ret = "created"
    /\ Len(Rides) = 17 /\ Len(db["drivers"]) = 12
    /\ ~IsCreated(Rides[15]) /\ IsCreated(Rides[16]) /\ IsCreated(Rides[17])
    /\ \E i \in 1..Len(db["drivers"]) :
          /\ db["drivers"][i].driver_id = Rides[17].driver_id
          /\ db["drivers"][i].status = "available"

=============================================================================
